---- MODULE Spec2Model ----
(***************************************************************************)
(* Checkout / order / payment slice of the storefront.                     *)
(*                                                                         *)
(*   - the hosted store: the tables orders, payments, notifications and    *)
(*     payment_history with the constraints of the schema migration;       *)
(*   - the browser sessions: the 'cart' entry of localStorage, the cart    *)
(*     page (loadCart, updateQuantity, removeItem, order summary) and the  *)
(*     checkout page (handleSubmit, one step per await);                   *)
(*   - the process-payment and process-order edge functions, one step per  *)
(*     await;                                                              *)
(*   - the application shell: AuthProvider with its asynchronous calls,    *)
(*     the cart count of the navbar, and the chat page with its fetches    *)
(*     and realtime subscriptions.                                         *)
(*                                                                         *)
(* Money is counted in tenths of a cent, so that 10% of any amount given   *)
(* in whole cents is again an integer: the arithmetic below is the exact   *)
(* decimal arithmetic of the source expressions.                           *)
(***************************************************************************)
EXTENDS Integers, Sequences, FiniteSets, Bags, TLC

VARIABLES
    orders,           \* table orders: sequence of rows, a row's id is its position
    payments,         \* table payments
    notifications,    \* table notifications: bag of rows (no id of these is ever read)
    payment_history,  \* table payment_history: bag of rows
    price,            \* table products: price of each product
    stock,            \* table products: stock of each product
    now,              \* the last reading of Date.now(), in milliseconds
    user,             \* per session: useAuth().user, NoUser when signed out
    localStorage,     \* per session: the entry stored under the key 'cart'
    page,             \* per session: the mounted route
    cartItems,        \* per session: CartPage state cartItems
    products,         \* per session: CartPage state products (ids whose details were fetched)
    formData,         \* per session: CheckoutPage state formData (its paymentMethod)
    loading,          \* per session: CheckoutPage state loading
    error,            \* per session: CheckoutPage state error
    hs,               \* per session: handleSubmit's position and locals
    pp,               \* the process-payment invocation in flight, and its last response
    po,               \* per invocation of process-order: its position, locals and response
    session,          \* per session: the user of the supabase.auth session, NoUser without one
    profile,          \* per session: AuthProvider state profile (the user it is of), NoUser for null
    isAdmin,          \* per session: AuthProvider state isAdmin
    ap,               \* per session: the asynchronous calls of AuthProvider in flight (a bag)
    cartCount,        \* per session: AppContent state cartCount
    messages,         \* table messages
    events,           \* per session: the realtime payloads not yet delivered to it
    chat              \* per session: ChatPage state selectedRoom and messages, its
                      \* subscriptions and the fetches in flight

authVars == <<session, profile, isAdmin, ap>>
chatVars == <<messages, events, chat>>

vars == <<orders, payments, notifications, payment_history, price, stock, now, user,
          localStorage, page, cartItems, products, formData, loading, error, hs, pp, po,
          authVars, cartCount, chatVars>>

storeVars == <<orders, payments, notifications, payment_history>>

(***************************************************************************)
(* Bounds of the model.                                                    *)
(***************************************************************************)
MaxOrders == 2        \* rows the orders table may hold
MaxNotifications == 2 \* rows the notifications table may hold
MaxHistory == 2       \* rows the payment_history table may hold
MaxTime == 1          \* last value of the clock
MaxQty == 3           \* largest quantity of a cart item
MaxStock == 5         \* largest stock of a product

Sessions == {"s1", "s2"}
ProductIds == {"P1", "P2"}
NoUser == "none"
UserOf(s) == IF s = "s1" THEN "u1" ELSE "u2"
Users == {UserOf(s) : s \in Sessions}

Dollars(n) == n * 1000
Cents(n) == n * 10

(***************************************************************************)
(* localStorage: getItem returns null for a key never set or removed, and  *)
(* otherwise the stored string; the stored string is the JSON text of a    *)
(* list of {product_id, quantity}, which JSON.parse gives back unchanged.  *)
(***************************************************************************)
NoEntry == [present |-> FALSE, value |-> <<>>]
JSONstringify(items) == [present |-> TRUE, value |-> items]
JSONparse(entry) == entry.value

CartItem(p, n) == [product_id |-> p, quantity |-> n]

\* The carts a browser can hold: distinct product ids, quantities 1..MaxQty.
Carts ==
    {<<>>}
    \cup {<<CartItem(p, n)>> : p \in ProductIds, n \in 1..MaxQty}
    \cup {<<CartItem(p[1], n[1]), CartItem(p[2], n[2])>> :
            p \in {q \in ProductIds \X ProductIds : q[1] # q[2]},
            n \in (1..MaxQty) \X (1..MaxQty)}

(***************************************************************************)
(* The store.  A table is the sequence of its rows in insertion order and  *)
(* the id the store generates for a row is its position.                   *)
(***************************************************************************)
NoOrder ==
    [id |-> 0, user_id |-> NoUser, order_number |-> 0, status |-> "none",
     total_amount |-> 0, tax_amount |-> 0, shipping_cost |-> 0, subtotal |-> 0]

\* Faulty variant: order_number without its UNIQUE constraint.
OrdersUniqueOff(tbl, row) == TRUE

\* orders.order_number text UNIQUE NOT NULL
OrdersUnique(tbl, row) == \A i \in DOMAIN tbl : tbl[i].order_number # row.order_number

\* payments.order_id uuid NOT NULL UNIQUE REFERENCES orders
PaymentsUnique(tbl, row) == \A i \in DOMAIN tbl : tbl[i].order_id # row.order_id

PaymentsForeignKey(row) == row.order_id \in DOMAIN orders

\* The row as stored: id uuid PRIMARY KEY DEFAULT gen_random_uuid()
Stored(tbl, row) == [row EXCEPT !.id = Len(tbl) + 1]

\* Faulty variant: the insert overwrites the user's earlier row (an upsert).
OrdersUpsert(tbl, rec) ==
    IF \E i \in DOMAIN tbl : tbl[i].user_id = rec.user_id
    THEN LET i == CHOOSE j \in DOMAIN tbl : tbl[j].user_id = rec.user_id
         IN [tbl EXCEPT ![i] = [rec EXCEPT !.id = i]]
    ELSE Append(tbl, [rec EXCEPT !.id = Len(tbl) + 1])

\* from('orders').insert(record): one more row, the rows there untouched
OrdersInsert(tbl, rec) == Append(tbl, Stored(tbl, rec))

\* from('payments').insert(record)
PaymentsInsert(tbl, rec) == Append(tbl, Stored(tbl, rec))

\* Faulty variant: a row equal to a stored one is not stored again.
InsertedOnce(tbl, row) == IF BagIn(row, tbl) THEN tbl ELSE tbl (+) SetToBag({row})

\* insert(table, record) into a table kept as a bag
Inserted(tbl, row) == tbl (+) SetToBag({row})

(***************************************************************************)
(* CartPage.                                                               *)
(***************************************************************************)
NoProducts == [p \in {} |-> 0]

\* const subtotal = cartItems.reduce((sum, item) => sum + (product ? price * quantity : 0), 0)
RECURSIVE reduce(_, _, _)
reduce(items, map, sum) ==
    IF items = <<>> THEN sum
    ELSE LET item == Head(items)
             add == IF item.product_id \in DOMAIN map
                    THEN map[item.product_id] * item.quantity ELSE 0
         IN reduce(Tail(items), map, sum + add)

FreeShippingOver == 100   \* dollars
FlatShipping == 10        \* dollars

subtotal(items, map) == reduce(items, map, 0)
tax(items, map) == subtotal(items, map) \div 10
\* Faulty variant: free shipping from 100.00 on.
shippingFrom(items, map) ==
    IF subtotal(items, map) >= Dollars(FreeShippingOver) THEN 0 ELSE Dollars(FlatShipping)

shipping(items, map) ==
    IF subtotal(items, map) > Dollars(FreeShippingOver) THEN 0 ELSE Dollars(FlatShipping)
total(items, map) == subtotal(items, map) + tax(items, map) + shipping(items, map)

CartPath == [path |-> "cart", id |-> 0]
CheckoutPath == [path |-> "checkout", id |-> 0]
OrderPath(id) == [path |-> "orders", id |-> id]

\* What mounting CartPage leaves: useState defaults, then loadCart (lines 19-27).
loadCart(entry) == IF entry.present THEN JSONparse(entry) ELSE <<>>

PaymentMethods == {"credit_card", "paypal"}

\* useState default of formData (lines 198-207 of ProductsPage.tsx)
FormDefaults == [paymentMethod |-> "credit_card"]

\* The state of a page that is not mounted is its useState defaults.
CheckoutUnmounted(s) ==
    /\ formData' = [formData EXCEPT ![s] = FormDefaults]
    /\ loading' = [loading EXCEPT ![s] = FALSE]
    /\ error' = [error EXCEPT ![s] = ""]

CartUnmounted(s) ==
    /\ cartItems' = [cartItems EXCEPT ![s] = <<>>]
    /\ products' = [products EXCEPT ![s] = NoProducts]

\* The route /cart (App.tsx lines 58-65): CartPage mounts and its effect
\* runs loadCart.  The user stays on the checkout page while a submission
\* is in flight.
OpenCart(s) ==
    /\ page[s].path # "cart"
    /\ ~loading[s]
    /\ page' = [page EXCEPT ![s] = CartPath]
    /\ cartItems' = [cartItems EXCEPT ![s] = loadCart(localStorage[s])]
    /\ products' = [products EXCEPT ![s] = NoProducts]
    /\ CheckoutUnmounted(s)
    /\ UNCHANGED <<authVars, cartCount, chatVars,
                   storeVars, price, stock, po, now, user, localStorage, hs, pp>>

\* fetchProductDetails (lines 29-42): the select answers with the rows of
\* the requested ids, or with no data.
fetchProductDetails(s) ==
    /\ page[s].path = "cart"
    /\ cartItems[s] # <<>>
    /\ products[s] = NoProducts
    /\ products' = [products EXCEPT ![s] =
           [p \in {cartItems[s][i].product_id : i \in DOMAIN cartItems[s]} |-> price[p]]]
    /\ UNCHANGED <<authVars, cartCount, chatVars,
                   storeVars, price, stock, po, now, user, localStorage, page, cartItems,
                   formData, loading, error, hs, pp>>

removed(items, productId) == SelectSeq(items, LAMBDA item : item.product_id # productId)

\* removeItem (lines 58-62)
removeItem(s, productId) ==
    /\ page[s].path = "cart"
    /\ user[s] # NoUser
    /\ cartItems' = [cartItems EXCEPT ![s] = removed(cartItems[s], productId)]
    /\ localStorage' = [localStorage EXCEPT ![s] = JSONstringify(cartItems'[s])]
    /\ UNCHANGED <<authVars, cartCount, chatVars,
                   storeVars, price, stock, po, now, user, page, products, formData, loading, error, hs, pp>>

updated(items, productId, quantity) ==
    [i \in DOMAIN items |->
        IF items[i].product_id = productId
        THEN [items[i] EXCEPT !.quantity = quantity] ELSE items[i]]

\* Faulty variant: a quantity of 0 is stored.
updateQuantityBelowZero(s, productId, quantity) ==
    IF quantity < 0 THEN removeItem(s, productId)
    ELSE /\ page[s].path = "cart"
         /\ user[s] # NoUser
         /\ cartItems' = [cartItems EXCEPT ![s] = updated(cartItems[s], productId, quantity)]
         /\ localStorage' = [localStorage EXCEPT ![s] = JSONstringify(cartItems'[s])]
         /\ UNCHANGED <<authVars, cartCount, chatVars,
                        storeVars, price, stock, po, now, user, page, products, formData, loading, error, hs, pp>>

\* updateQuantity (lines 44-56)
updateQuantity(s, productId, quantity) ==
    IF quantity <= 0 THEN removeItem(s, productId)
    ELSE /\ page[s].path = "cart"
         /\ user[s] # NoUser
         /\ cartItems' = [cartItems EXCEPT ![s] = updated(cartItems[s], productId, quantity)]
         /\ localStorage' = [localStorage EXCEPT ![s] = JSONstringify(cartItems'[s])]
         /\ UNCHANGED <<authVars, cartCount, chatVars,
                        storeVars, price, stock, po, now, user, page, products, formData, loading, error, hs, pp>>

\* The remove button of a rendered item (line 139).
ClickRemove(s) ==
    \E i \in DOMAIN cartItems[s] : removeItem(s, cartItems[s][i].product_id)

\* The minus and plus buttons of a rendered item (lines 147, 154).
ClickQuantity(s) ==
    \E i \in DOMAIN cartItems[s], d \in {-1, 1} :
        /\ cartItems[s][i].quantity + d <= MaxQty
        /\ updateQuantity(s, cartItems[s][i].product_id, cartItems[s][i].quantity + d)

\* The route /checkout (App.tsx lines 67-74), opened by the cart page's
\* button (line 195) or by its address: CheckoutPage mounts with its
\* useState defaults.
OpenCheckout(s) ==
    /\ page[s].path # "checkout"
    /\ page' = [page EXCEPT ![s] = CheckoutPath]
    /\ CartUnmounted(s)
    /\ UNCHANGED <<authVars, cartCount, chatVars,
                   storeVars, price, stock, po, now, user, localStorage, formData, loading, error,
                   hs, pp>>

\* handleChange (lines 209-212) on the payment method select; the form is
\* left alone while a submission is in flight.
handleChange(s, value) ==
    /\ page[s].path = "checkout"
    /\ ~loading[s]
    /\ formData[s].paymentMethod # value
    /\ formData' = [formData EXCEPT ![s].paymentMethod = value]
    /\ UNCHANGED <<authVars, cartCount, chatVars,
                   storeVars, price, stock, po, now, user, localStorage, page, cartItems, products,
                   loading, error, hs, pp>>

\* Date.now(): the time of the last reading, or later.
DateNow == {t \in {now, now + 1} : t <= MaxTime}

(***************************************************************************)
(* CheckoutPage.handleSubmit (ProductsPage.tsx lines 214-277), one action  *)
(* per await.  An awaited store call never throws: it answers with the     *)
(* row and/or an error.                                                    *)
(***************************************************************************)
Idle == [pc |-> "idle", cartItems |-> <<>>, order_number |-> 0, order |-> NoOrder]

\* Faulty variant: the total leaves the tax out.
OrderRecordWithoutTax(uid, number) ==
    [id |-> 0, user_id |-> uid, order_number |-> number, status |-> "pending",
     total_amount |-> Dollars(90), tax_amount |-> Dollars(10),
     shipping_cost |-> Dollars(0), subtotal |-> Dollars(90)]

\* The record handed to the orders insert (lines 229-239).
OrderRecord(uid, number) ==
    [id |-> 0, user_id |-> uid, order_number |-> number, status |-> "pending",
     total_amount |-> Dollars(100), tax_amount |-> Dollars(10),
     shipping_cost |-> Dollars(0), subtotal |-> Dollars(90)]

\* payments.transaction_id of a row inserted without one (null); the
\* readings of the clock are never negative.
NoTransaction == -1

\* Faulty variant: the payment method of the form is not used.
PaymentRecordByCard(order, uid, method) ==
    [id |-> 0, order_id |-> order.id, user_id |-> uid, payment_method |-> "credit_card",
     amount |-> order.total_amount, status |-> "processing",
     transaction_id |-> NoTransaction]

\* The record handed to the payments insert (lines 249-255).
PaymentRecord(order, uid, method) ==
    [id |-> 0, order_id |-> order.id, user_id |-> uid, payment_method |-> method,
     amount |-> order.total_amount, status |-> "processing",
     transaction_id |-> NoTransaction]

\* The record handed to the notifications insert (lines 262-268).
OrderPlaced(order, uid) ==
    [user_id |-> uid, title |-> "Order Placed", related_id |-> order.id]

\* catch (line 273) and finally (line 275)
Caught(s, message) ==
    /\ error' = [error EXCEPT ![s] = message]
    /\ loading' = [loading EXCEPT ![s] = FALSE]
    /\ hs' = [hs EXCEPT ![s] = Idle]

\* if (!cartData || !user) (line 221)
InvalidCheckout(cartData, u) == ~cartData.present \/ u = NoUser

\* Lines 215-227: up to the first await.
handleSubmit(s) ==
    /\ page[s].path = "checkout"
    /\ ~loading[s]
    /\ IF InvalidCheckout(localStorage[s], user[s])
       THEN Caught(s, "Invalid checkout") /\ UNCHANGED now
       ELSE /\ error' = [error EXCEPT ![s] = ""]
            /\ loading' = [loading EXCEPT ![s] = TRUE]
            /\ now' \in DateNow
            /\ hs' = [hs EXCEPT ![s] =
                       [pc |-> "orders", cartItems |-> JSONparse(localStorage[s]),
                        order_number |-> now', order |-> NoOrder]]
    /\ UNCHANGED <<authVars, cartCount, chatVars,
                   storeVars, price, stock, po, user, localStorage, page, cartItems, products, formData, pp>>

\* Faulty variant: only the error is looked at, not the missing row.
OrderFailedOnError(outcome) == outcome = "error"

\* Faulty variant: the answer of the orders insert is not looked at.
OrderFailedNever(outcome) == FALSE

\* if (orderError) throw; if (!order) throw (lines 243-244)
OrderFailed(outcome) == outcome # "row"

\* Lines 227-247: the orders insert answers; on a row the payments insert is issued.
OrdersInsertReturns(s) ==
    /\ hs[s].pc = "orders"
    /\ LET rec == OrderRecord(user[s], hs[s].order_number)
       IN \E outcome \in {"row", "error", "no row"} :
            /\ outcome = "row" => OrdersUnique(orders, rec) /\ Len(orders) < MaxOrders
            /\ IF OrderFailed(outcome)
               THEN /\ Caught(s, IF outcome = "error" THEN "orders: store error"
                                 ELSE "Failed to create order")
                    /\ UNCHANGED orders
               ELSE /\ orders' = IF outcome = "row" THEN OrdersInsert(orders, rec) ELSE orders
                    /\ hs' = [hs EXCEPT ![s].pc = "payments",
                                        ![s].order = IF outcome = "row"
                                                     THEN orders'[Len(orders')] ELSE NoOrder]
                    /\ UNCHANGED <<error, loading>>
    /\ UNCHANGED <<authVars, cartCount, chatVars,
                   payments, notifications, payment_history, price, stock, po, now, user,
                   localStorage, page, cartItems, products, formData, pp>>

\* Faulty variant: the answer of the payments insert is not looked at.
PaymentFailedNever(outcome) == FALSE

\* if (paymentError) throw (line 257)
PaymentFailed(outcome) == outcome # "ok"

\* Lines 247-260: the payments insert answers; on success the notifications
\* insert is issued.
PaymentsInsertReturns(s) ==
    /\ hs[s].pc = "payments"
    /\ LET rec == PaymentRecord(hs[s].order, user[s], formData[s].paymentMethod)
       IN \E outcome \in {"ok", "error"} :
            /\ outcome = "ok" => PaymentsUnique(payments, rec) /\ PaymentsForeignKey(rec)
            /\ IF PaymentFailed(outcome)
               THEN /\ Caught(s, "payments: store error")
                    /\ UNCHANGED payments
               ELSE /\ payments' = IF outcome = "ok" THEN PaymentsInsert(payments, rec)
                                   ELSE payments
                    /\ hs' = [hs EXCEPT ![s].pc = "notifications"]
                    /\ UNCHANGED <<error, loading>>
    /\ UNCHANGED <<authVars, cartCount, chatVars,
                   orders, notifications, payment_history, price, stock, po, now, user,
                   localStorage, page, cartItems, products, formData, pp>>

\* Lines 260-276: the notifications insert answers, and its answer is not
\* looked at; the cart entry is removed and the order view opened.
NotificationsInsertReturns(s) ==
    /\ hs[s].pc = "notifications"
    /\ \E outcome \in {"ok", "error"} :
         /\ outcome = "ok" => BagCardinality(notifications) < MaxNotifications
         /\ notifications' = IF outcome = "ok"
                             THEN Inserted(notifications, OrderPlaced(hs[s].order, user[s]))
                             ELSE notifications
    /\ localStorage' = [localStorage EXCEPT ![s] = NoEntry]
    /\ page' = [page EXCEPT ![s] = OrderPath(hs[s].order.id)]
    /\ CheckoutUnmounted(s)
    /\ hs' = [hs EXCEPT ![s] = Idle]
    /\ UNCHANGED <<authVars, cartCount, chatVars,
                   orders, payments, payment_history, price, stock, po, now, user,
                   cartItems, products, pp>>

(***************************************************************************)
(* The process-payment edge function (part_006 lines 101-182), one action  *)
(* per await.  No answer of the store is looked at.                        *)
(***************************************************************************)
NoResponse ==
    [status |-> 0, success |-> FALSE, paymentId |-> 0, transactionId |-> NoTransaction]

PPIdle(response) ==
    [pc |-> "idle", paymentId |-> 0, orderId |-> 0, userId |-> NoUser, amount |-> 0,
     transactionId |-> NoTransaction, response |-> response]

\* if (!paymentId || !orderId || !userId || !amount) (line 112); an absent
\* id is 0, an absent string is "" and an absent user is NoUser.
MissingRequiredFields(req) ==
    req.paymentId = 0 \/ req.orderId = 0 \/ req.userId = NoUser \/ req.amount = 0

\* Lines 109-131: the request is read and validated, the transaction id made.
processPayment(req) ==
    /\ pp.pc = "idle"
    /\ IF MissingRequiredFields(req)
       THEN pp' = PPIdle([NoResponse EXCEPT !.status = 400]) /\ UNCHANGED now
       ELSE /\ now' \in DateNow
            /\ pp' = [pc |-> "payments", paymentId |-> req.paymentId,
                      orderId |-> req.orderId, userId |-> req.userId,
                      amount |-> req.amount, transactionId |-> now',
                      response |-> NoResponse]
    /\ UNCHANGED <<authVars, cartCount, chatVars,
                   storeVars, price, stock, po, user, localStorage, page, cartItems, products, formData,
                   loading, error, hs>>

\* payments.transaction_id text UNIQUE
TransactionUnique(tbl, id, txn) ==
    \A i \in DOMAIN tbl : i # id => tbl[i].transaction_id # txn

\* update payments set status, transaction_id where id = paymentId (lines 131-137)
PaymentsUpdated(tbl, id, txn) ==
    [i \in DOMAIN tbl |->
        IF i = id THEN [tbl[i] EXCEPT !.status = "success", !.transaction_id = txn]
        ELSE tbl[i]]

\* Lines 131-139: the payments update answers, carried out ("ok") or not.
PaymentsUpdateAnswers(outcome) ==
    /\ pp.pc = "payments"
    /\ outcome = "ok" => TransactionUnique(payments, pp.paymentId, pp.transactionId)
    /\ payments' = IF outcome = "ok"
                   THEN PaymentsUpdated(payments, pp.paymentId, pp.transactionId)
                   ELSE payments
    /\ pp' = [pp EXCEPT !.pc = "orders"]
    /\ UNCHANGED <<authVars, cartCount, chatVars,
                   orders, notifications, payment_history, price, stock, po, now, user, localStorage,
                   page, cartItems, products, formData, loading, error, hs>>

PaymentsUpdateReturns == \E outcome \in {"ok", "error"} : PaymentsUpdateAnswers(outcome)

\* Faulty variant: the update without its filter on the id.
OrdersUpdatedAll(tbl, id) ==
    [i \in DOMAIN tbl |-> [tbl[i] EXCEPT !.status = "confirmed"]]

\* update orders set status = 'confirmed' where id = orderId (lines 139-142)
OrdersUpdated(tbl, id) ==
    [i \in DOMAIN tbl |-> IF i = id THEN [tbl[i] EXCEPT !.status = "confirmed"] ELSE tbl[i]]

\* Lines 139-144: the orders update answers.
OrdersUpdateAnswers(outcome) ==
    /\ pp.pc = "orders"
    /\ orders' = IF outcome = "ok" THEN OrdersUpdated(orders, pp.orderId) ELSE orders
    /\ pp' = [pp EXCEPT !.pc = "payment_history"]
    /\ UNCHANGED <<authVars, cartCount, chatVars,
                   payments, notifications, payment_history, price, stock, po, now, user, localStorage,
                   page, cartItems, products, formData, loading, error, hs>>

OrdersUpdateReturns == \E outcome \in {"ok", "error"} : OrdersUpdateAnswers(outcome)

\* The record handed to the payment_history insert (lines 146-150); its
\* response payload, which nothing reads back, is left out.
HistoryRecord(paymentId) == [payment_id |-> paymentId, status |-> "success"]

\* payment_history.payment_id uuid NOT NULL REFERENCES payments
HistoryForeignKey(rec) == rec.payment_id \in DOMAIN payments

\* Lines 144-152: the payment_history insert answers.
HistoryInsertAnswers(outcome) ==
    /\ pp.pc = "payment_history"
    /\ LET rec == HistoryRecord(pp.paymentId)
       IN /\ outcome = "ok" =>
                HistoryForeignKey(rec) /\ BagCardinality(payment_history) < MaxHistory
          /\ payment_history' = IF outcome = "ok" THEN Inserted(payment_history, rec)
                                ELSE payment_history
    /\ pp' = [pp EXCEPT !.pc = "notifications"]
    /\ UNCHANGED <<authVars, cartCount, chatVars,
                   orders, payments, notifications, price, stock, po, now, user, localStorage,
                   page, cartItems, products, formData, loading, error, hs>>

HistoryInsertReturns == \E outcome \in {"ok", "error"} : HistoryInsertAnswers(outcome)

\* The record handed to the notifications insert (lines 154-160).
PaymentReceived(userId, orderId) ==
    [user_id |-> userId, title |-> "Payment Received", related_id |-> orderId]

\* Lines 152-172: the notifications insert answers and the response is sent.
PaymentNotificationAnswers(outcome) ==
    /\ pp.pc = "notifications"
    /\ outcome = "ok" => BagCardinality(notifications) < MaxNotifications
    /\ notifications' = IF outcome = "ok"
                        THEN Inserted(notifications, PaymentReceived(pp.userId, pp.orderId))
                        ELSE notifications
    /\ pp' = PPIdle([status |-> 200, success |-> TRUE, paymentId |-> pp.paymentId,
                     transactionId |-> pp.transactionId])
    /\ UNCHANGED <<authVars, cartCount, chatVars,
                   orders, payments, payment_history, price, stock, po, now, user, localStorage,
                   page, cartItems, products, formData, loading, error, hs>>

PaymentNotificationReturns ==
    \E outcome \in {"ok", "error"} : PaymentNotificationAnswers(outcome)

(***************************************************************************)
(* The process-order edge function (part_006 lines 15-83), one action per  *)
(* await.  Invocations run concurrently; no answer of the store is looked  *)
(* at, except the row of the stock select.                                 *)
(***************************************************************************)
Invocations == {"i1", "i2"}

OrderItem(p, n) == [productId |-> p, quantity |-> n]

\* A field of the payload that the request does not carry.
Absent == [present |-> FALSE, value |-> <<>>]
Given(items) == [present |-> TRUE, value |-> items]

\* An element of items that is null: reading its productId throws.
NullItem == [productId |-> "null", quantity |-> 0]

NoOrderResponse == [status |-> 0, success |-> FALSE, orderId |-> 0, error |-> ""]

\* Lines 68-73.
OrderSuccess(orderId) == [NoOrderResponse EXCEPT !.status = 200, !.success = TRUE,
                                                 !.orderId = orderId]

\* Line 28.
MissingFields == [NoOrderResponse EXCEPT !.status = 400, !.error = "Missing required fields"]

\* Faulty variant: the catch answers without the message of the exception.
ThrownSilently(message) == [NoOrderResponse EXCEPT !.status = 500]

\* catch (lines 74-81): the response carries error.message.
Thrown(message) == [NoOrderResponse EXCEPT !.status = 500, !.error = message]

\* The messages of the TypeErrors of line 53 and of line 57.
NotIterable == "items is not iterable"
NullProperty == "Cannot read properties of null (reading 'productId')"

POIdle(response) ==
    [pc |-> "idle", orderId |-> 0, userId |-> NoUser, items |-> Absent,
     product |-> [stock |-> 0], response |-> response]

\* if (!orderId || !userId) (line 26)
MissingOrderFields(req) == req.orderId = 0 \/ req.userId = NoUser

\* Lines 23-43: the request is read and validated, the notifications insert issued.
processOrder(i, req) ==
    /\ po[i].pc = "idle"
    /\ po' = [po EXCEPT ![i] =
                IF MissingOrderFields(req)
                THEN POIdle(MissingFields)
                ELSE [pc |-> "notifications", orderId |-> req.orderId, userId |-> req.userId,
                      items |-> req.items, product |-> [stock |-> 0],
                      response |-> NoOrderResponse]]
    /\ UNCHANGED <<authVars, cartCount, chatVars,
                   storeVars, price, stock, now, user, localStorage, page, cartItems,
                   products, formData, loading, error, hs, pp>>

\* Faulty variant: the notification does not name the order.
OrderConfirmedUnrelated(userId, orderId) ==
    [user_id |-> userId, title |-> "Order Confirmed", related_id |-> 0]

\* The record handed to the notifications insert (lines 45-51).
OrderConfirmed(userId, orderId) ==
    [user_id |-> userId, title |-> "Order Confirmed", related_id |-> orderId]

\* for (const item of items) (line 53): the select of the next item is
\* issued, or the loop is left and the response sent (lines 68-73); the
\* select of an item that is null throws into the catch (line 57).
Iterate(i, rest) ==
    po' = [po EXCEPT ![i] =
             IF rest = <<>>
             THEN POIdle(OrderSuccess(po[i].orderId))
             ELSE IF Head(rest) = NullItem
             THEN POIdle(Thrown(NullProperty))
             ELSE [po[i] EXCEPT !.pc = "select", !.items = Given(rest)]]

\* Lines 43-54: the notifications insert answers, carried out ("ok") or
\* not; items that are not iterable throw into the catch (lines 74-81).
OrderNotificationAnswers(i, outcome) ==
    /\ po[i].pc = "notifications"
    /\ outcome = "ok" => BagCardinality(notifications) < MaxNotifications
    /\ notifications' = IF outcome = "ok"
                        THEN Inserted(notifications,
                                      OrderConfirmed(po[i].userId, po[i].orderId))
                        ELSE notifications
    /\ IF po[i].items.present
       THEN Iterate(i, po[i].items.value)
       ELSE po' = [po EXCEPT ![i] = POIdle(Thrown(NotIterable))]
    /\ UNCHANGED <<authVars, cartCount, chatVars,
                   orders, payments, payment_history, price, stock, now, user, localStorage,
                   page, cartItems, products, formData, loading, error, hs, pp>>

OrderNotificationReturns(i) ==
    \E outcome \in {"ok", "error"} : OrderNotificationAnswers(i, outcome)

\* Faulty variant: the stock is not compared with the quantity.
InStockAlways(found, product, item) == found

\* if (product && product.stock >= item.quantity) (line 60)
InStock(found, product, item) == found /\ product.stock >= item.quantity

\* Lines 54-61: the select of the item's stock answers with the row, or
\* with no row; on enough stock the update is issued.
ProductSelectReturns(i, outcome) ==
    /\ po[i].pc = "select"
    /\ outcome \in {"row", "none"}
    /\ LET item == Head(po[i].items.value)
           found == outcome = "row" /\ item.productId \in DOMAIN stock
           product == [stock |-> IF found THEN stock[item.productId] ELSE 0]
       IN IF InStock(found, product, item)
          THEN po' = [po EXCEPT ![i].pc = "update", ![i].product = product]
          ELSE Iterate(i, Tail(po[i].items.value))
    /\ UNCHANGED <<authVars, cartCount, chatVars,
                   storeVars, price, stock, now, user, localStorage, page, cartItems,
                   products, formData, loading, error, hs, pp>>

\* Faulty variant: the update subtracts from the stock of the row it meets.
StockUpdatedInPlace(tbl, product, item) ==
    [tbl EXCEPT ![item.productId] = tbl[item.productId] - item.quantity]

\* update products set stock = product.stock - item.quantity where id =
\* item.productId (lines 61-64)
StockUpdated(tbl, product, item) ==
    [tbl EXCEPT ![item.productId] = product.stock - item.quantity]

\* Lines 61-66: the update answers.
ProductUpdateReturns(i, outcome) ==
    /\ po[i].pc = "update"
    /\ outcome \in {"ok", "error"}
    /\ stock' = IF outcome = "ok"
                THEN StockUpdated(stock, po[i].product, Head(po[i].items.value))
                ELSE stock
    /\ Iterate(i, Tail(po[i].items.value))
    /\ UNCHANGED <<authVars, cartCount, chatVars,
                   storeVars, price, now, user, localStorage, page, cartItems,
                   products, formData, loading, error, hs, pp>>

(***************************************************************************)
(* AuthProvider (AuthContext.tsx).  Its asynchronous functions run one     *)
(* step per await; the calls in flight of a browser are kept as a bag of   *)
(* records: the function, the await it is at, the user id it works for     *)
(* and the user whose token the request in flight carries.  The state      *)
(* loading of AuthProvider is not kept.                                    *)
(***************************************************************************)
pageVars == <<localStorage, page, cartItems, products, formData, loading, error, hs>>
shopVars == <<storeVars, price, stock, now, pageVars, pp, po>>

\* user_roles: the users that hold the role admin
Admins == {"u1"}

MaxCalls == 2         \* asynchronous calls of AuthProvider in flight in one browser

Call(fn, pc, userId, token) == [fn |-> fn, pc |-> pc, userId |-> userId, token |-> token]

InFlight(s) == BagToSet(ap[s])
Finished(bag, call) == bag (-) SetToBag({call})
Continued(bag, call, next) == Finished(bag, call) (+) SetToBag({next})

\* checkAuth (lines 35-45): getUser answers with the user of the token the
\* request carried, or with none; with a user, fetchProfile is called.
GetUserReturns(s, c, outcome) ==
    /\ c \in InFlight(s)
    /\ c.fn = "checkAuth" /\ c.pc = "getUser"
    /\ outcome \in {"user", "none"}
    /\ outcome = "user" => c.token # NoUser
    /\ LET u == IF outcome = "user" THEN c.token ELSE NoUser
       IN /\ user' = [user EXCEPT ![s] = u]
          /\ ap' = [ap EXCEPT ![s] =
                      IF u # NoUser
                      THEN Continued(@, c, Call(c.fn, "fetchProfile", u, session[s]))
                      ELSE Finished(@, c)]
    /\ UNCHANGED <<session, profile, isAdmin, shopVars, cartCount, chatVars>>

\* fetchProfile (lines 64-74) answers: profiles are readable by everyone;
\* then checkAdminStatus is called (lines 41, 54).
FetchProfileReturns(s, c, outcome) ==
    /\ c \in InFlight(s)
    /\ c.pc = "fetchProfile"
    /\ outcome \in {"row", "none"}
    /\ profile' = [profile EXCEPT ![s] = IF outcome = "row" THEN c.userId ELSE @]
    /\ ap' = [ap EXCEPT ![s] =
                Continued(@, c, Call(c.fn, "checkAdminStatus", c.userId, session[s]))]
    /\ UNCHANGED <<user, session, isAdmin, shopVars, cartCount, chatVars>>

\* The row the select of lines 77-82 finds: user_roles is readable by
\* authenticated users only.
HasAdminRole(userId, token) == userId \in Admins /\ token # NoUser

\* checkAdminStatus (lines 76-85) answers: setIsAdmin(!!data).
CheckAdminStatusReturns(s, c, outcome) ==
    /\ c \in InFlight(s)
    /\ c.pc = "checkAdminStatus"
    /\ outcome \in {"row", "none"}
    /\ outcome = "row" => HasAdminRole(c.userId, c.token)
    /\ isAdmin' = [isAdmin EXCEPT ![s] = outcome = "row"]
    /\ ap' = [ap EXCEPT ![s] = Finished(@, c)]
    /\ UNCHANGED <<user, session, profile, shopVars, cartCount, chatVars>>

\* signIn (lines 121-124) succeeds and the listener of onAuthStateChange
\* (lines 49-54) runs for the new session up to its first await; a sign-in
\* that fails throws and changes nothing.
signIn(s, u) ==
    /\ user[s] = NoUser
    /\ BagCardinality(ap[s]) < MaxCalls
    /\ session' = [session EXCEPT ![s] = u]
    /\ user' = [user EXCEPT ![s] = u]
    /\ ap' = [ap EXCEPT ![s] = @ (+) SetToBag({Call("onAuthStateChange", "fetchProfile", u, u)})]
    /\ UNCHANGED <<profile, isAdmin, shopVars, cartCount, chatVars>>

\* signOut (lines 126-131) succeeds: the listener runs for no session
\* (lines 50, 55-58), then lines 129-130; a sign-out that fails throws and
\* changes nothing.
signOut(s) ==
    /\ user[s] # NoUser
    /\ session' = [session EXCEPT ![s] = NoUser]
    /\ user' = [user EXCEPT ![s] = NoUser]
    /\ profile' = [profile EXCEPT ![s] = NoUser]
    /\ isAdmin' = [isAdmin EXCEPT ![s] = FALSE]
    /\ UNCHANGED <<ap, shopVars, cartCount, chatVars>>

(***************************************************************************)
(* AppContent (App.tsx): the cart count of the navbar.  The effect runs    *)
(* updateCartCount when the application mounts and on 'storage' events,    *)
(* which a window receives for the changes other windows make.             *)
(***************************************************************************)
\* updateCartCount (lines 24-32)
updateCartCount(entry) == IF entry.present THEN Len(JSONparse(entry)) ELSE 0

(***************************************************************************)
(* ChatPage (ChatPage.tsx): the selected room, the displayed messages,     *)
(* the subscriptions made (none is ever cancelled: the effect of lines     *)
(* 23-28 returns no cleanup) and the rooms whose fetch is in flight.       *)
(***************************************************************************)
Rooms == {"A", "B"}
NoRoom == "none"

MaxMessages == 2      \* rows the messages table may hold
MaxSubscriptions == 2 \* subscriptions one chat page may make

ChatPath == [path |-> "chat", id |-> 0]

\* useState defaults (lines 9-14)
ChatDefaults ==
    [selectedRoom |-> NoRoom, messages |-> <<>>, subscriptions |-> <<>>, fetches |-> {}]

\* A row of messages; deleted_at is null (FALSE) or set (TRUE).
Message(id, roomId) == [id |-> id, room_id |-> roomId, deleted_at |-> FALSE]

\* The route /chat (App.tsx lines 49-56): ChatPage mounts.
OpenChat(s) ==
    /\ page[s].path # "chat"
    /\ ~loading[s]
    /\ user[s] # NoUser
    /\ page' = [page EXCEPT ![s] = ChatPath]
    /\ CartUnmounted(s)
    /\ CheckoutUnmounted(s)
    /\ UNCHANGED <<authVars, cartCount, chatVars, storeVars, price, stock, po, now, user,
                   localStorage, hs, pp>>

\* setSelectedRoom (lines 50, 146, 198) and the effect of lines 23-28:
\* fetchMessages and subscribeToMessages for the room.  A refetch of the
\* rooms selects a new object for the room already selected, so the
\* effect runs for it again.
SelectRoom(s, r) ==
    /\ page[s].path = "chat"
    /\ Len(chat[s].subscriptions) < MaxSubscriptions
    /\ chat' = [chat EXCEPT ![s].selectedRoom = r,
                            ![s].fetches = @ \cup {r},
                            ![s].subscriptions = Append(@, r)]
    /\ UNCHANGED <<authVars, cartCount, messages, events, shopVars, user>>

\* The rows the select of lines 71-80 is meant to give.
RoomMessages(tbl, roomId) == SelectSeq(tbl, LAMBDA m : m.room_id = roomId /\ ~m.deleted_at)

\* fetchMessages (lines 70-85) answers: with the rows, with no row (the
\* filter eq('deleted_at', null) compares with null) or with an error.
FetchMessagesReturns(s, r, outcome) ==
    /\ r \in chat[s].fetches
    /\ outcome \in {"rows", "empty", "error"}
    /\ chat' = [chat EXCEPT ![s].fetches = @ \ {r},
                            ![s].messages = CASE outcome = "rows" -> RoomMessages(messages, r)
                                              [] outcome = "empty" -> <<>>
                                              [] OTHER -> @]
    /\ UNCHANGED <<authVars, cartCount, messages, events, shopVars, user>>

\* The store hands the new row of a change to the browsers that subscribed.
Notified(payload) ==
    [s \in Sessions |-> IF chat[s].subscriptions # <<>> THEN Append(events[s], payload)
                        ELSE events[s]]

\* A member posts a message in a room (handleSendMessage, lines 104-109).
MessagesInsert(r) ==
    /\ Len(messages) < MaxMessages
    /\ messages' = Append(messages, Message(Len(messages) + 1, r))
    /\ events' = Notified(messages'[Len(messages')])
    /\ UNCHANGED <<authVars, cartCount, chat, shopVars, user>>

\* The author of a message sets its deleted_at.
MessagesDelete(i) ==
    /\ i \in DOMAIN messages
    /\ ~messages[i].deleted_at
    /\ messages' = [messages EXCEPT ![i].deleted_at = TRUE]
    /\ events' = Notified(messages'[i])
    /\ UNCHANGED <<authVars, cartCount, chat, shopVars, user>>

\* The callbacks of the subscriptions (lines 90-94), in the order they
\* were made, on one payload.
RECURSIVE Received(_, _, _)
Received(prev, subscriptions, new) ==
    IF subscriptions = <<>> THEN prev
    ELSE Received(IF new.room_id = Head(subscriptions) /\ ~new.deleted_at
                  THEN Append(prev, new) ELSE prev,
                  Tail(subscriptions), new)

\* The next payload reaches the browser.
Deliver(s) ==
    /\ events[s] # <<>>
    /\ chat' = [chat EXCEPT ![s].messages =
                   Received(@, chat[s].subscriptions, Head(events[s]))]
    /\ events' = [events EXCEPT ![s] = Tail(@)]
    /\ UNCHANGED <<authVars, cartCount, messages, shopVars, user>>

(***************************************************************************)
(* Specifications.                                                         *)
(***************************************************************************)
Catalog == [p \in ProductIds |-> IF p = "P1" THEN Dollars(20) ELSE Dollars(50)]

\* Every browser shows its cart page; the sessions of `active` hold any of
\* `entries` under 'cart' and may be signed in.
InitBrowsers(active, entries) ==
    /\ user \in [Sessions -> Users \cup {NoUser}]
    /\ \A s \in Sessions : user[s] \in (IF s \in active THEN {NoUser, UserOf(s)} ELSE {NoUser})
    /\ localStorage \in [Sessions -> entries \cup {NoEntry}]
    /\ \A s \in Sessions \ active : localStorage[s] = NoEntry
    /\ page = [s \in Sessions |-> CartPath]
    /\ cartItems = [s \in Sessions |-> loadCart(localStorage[s])]
    /\ products = [s \in Sessions |-> NoProducts]
    /\ formData = [s \in Sessions |-> FormDefaults]
    /\ loading = [s \in Sessions |-> FALSE]
    /\ error = [s \in Sessions |-> ""]
    /\ hs = [s \in Sessions |-> Idle]
    /\ cartCount = [s \in Sessions |-> updateCartCount(localStorage[s])]
    /\ chat = [s \in Sessions |-> ChatDefaults]
    /\ events = [s \in Sessions |-> <<>>]

\* AuthProvider has settled on the session of each browser.
InitSettled ==
    /\ session = user
    /\ profile = user
    /\ isAdmin = [s \in Sessions |-> user[s] \in Admins]
    /\ ap = [s \in Sessions |-> EmptyBag]

\* No invocation of an edge function is in flight.
InitFunctions ==
    /\ pp = PPIdle(NoResponse)
    /\ po = [i \in Invocations |-> POIdle(NoOrderResponse)]

\* The tables of the slice are empty.
InitStore(tables, stocks) ==
    /\ orders = <<>>
    /\ payments = <<>>
    /\ notifications = EmptyBag
    /\ payment_history = EmptyBag
    /\ messages = <<>>
    /\ price \in tables
    /\ stock \in stocks
    /\ now = 0

InitWith(active, entries, tables, stocks) ==
    /\ InitStore(tables, stocks)
    /\ InitBrowsers(active, entries)
    /\ InitSettled
    /\ InitFunctions

FullStock == [p \in ProductIds |-> MaxStock]

\* The carts of the checkout specifications: one line of the largest quantity.
CheckoutEntries == {JSONstringify(<<CartItem(p, MaxQty)>>) : p \in ProductIds}

Browse(s) ==
    \/ OpenCart(s)
    \/ ClickRemove(s)
    \/ OpenCheckout(s)
    \/ \E value \in PaymentMethods : handleChange(s, value)

Checkout(s) ==
    \/ handleSubmit(s)
    \/ OrdersInsertReturns(s)
    \/ PaymentsInsertReturns(s)
    \/ NotificationsInsertReturns(s)

\* The requests sent to process-payment: every complete request, and a
\* complete request with one of its five fields absent.
CompleteRequests ==
    [paymentId : 1..MaxOrders, orderId : 1..MaxOrders, userId : {"u1"},
     amount : {Dollars(100)}, paymentMethod : {"credit_card"}]

IncompleteRequests ==
    LET r == [paymentId |-> 1, orderId |-> 1, userId |-> "u1", amount |-> Dollars(100),
              paymentMethod |-> "credit_card"]
    IN {[r EXCEPT !.paymentId = 0], [r EXCEPT !.orderId = 0], [r EXCEPT !.userId = NoUser],
        [r EXCEPT !.amount = 0], [r EXCEPT !.paymentMethod = ""]}

PaymentFunctionOn(requests) ==
    \/ \E req \in requests : processPayment(req)
    \/ PaymentsUpdateReturns
    \/ OrdersUpdateReturns
    \/ HistoryInsertReturns
    \/ PaymentNotificationReturns

PaymentFunction == PaymentFunctionOn(CompleteRequests \cup IncompleteRequests)

\* The requests a client makes of the rows the store holds: a payment, an
\* order, the user and the amount of the payment.
StoredRequests ==
    {[paymentId |-> i, orderId |-> o, userId |-> payments[i].user_id,
      amount |-> payments[i].amount, paymentMethod |-> payments[i].payment_method] :
        i \in DOMAIN payments, o \in DOMAIN orders}

\* Two browsers checking out against one store.
InitCheckout == InitWith(Sessions, CheckoutEntries, {Catalog}, {FullStock})
NextCheckout == \E s \in Sessions : Browse(s) \/ Checkout(s)
SpecCheckout == InitCheckout /\ [][NextCheckout]_vars

\* One browser on its cart page, over any cart and any price table.
Prices == {Dollars(20), Dollars(50), Cents(1999)}

InitCart ==
    /\ InitWith({"s1"}, {JSONstringify(c) : c \in Carts}, [ProductIds -> Prices], {FullStock})
    /\ user["s1"] = "u1"

NextCart == fetchProductDetails("s1") \/ ClickRemove("s1") \/ ClickQuantity("s1")
SpecCart == InitCart /\ [][NextCart]_vars

\* One browser and the payment function against one store.
Init == InitWith({"s1"}, {JSONstringify(<<CartItem("P1", MaxQty)>>)}, {Catalog}, {FullStock})
Next == OpenCheckout("s1") \/ Checkout("s1") \/ PaymentFunction
Spec == Init /\ [][Next]_vars

\* One browser that chooses its payment method, and the payment function
\* called for the rows of the store.
NextPaid ==
    \/ OpenCheckout("s1")
    \/ \E value \in PaymentMethods : handleChange("s1", value)
    \/ Checkout("s1")
    \/ PaymentFunctionOn(StoredRequests)

SpecPaid == Init /\ [][NextPaid]_vars

\* The payloads sent to process-order: the quantity of a line is a cart
\* quantity or the whole stock; a payload may lack a field.
OrderQuantities == {n \in 1..MaxStock : n = MaxQty \/ n = MaxStock}

OrderItems ==
    {<<>>}
    \cup {<<OrderItem(p, n)>> : p \in ProductIds, n \in OrderQuantities}
    \cup {<<OrderItem("P1", n[1]), OrderItem("P2", n[2])>> :
            n \in OrderQuantities \X OrderQuantities}

OrderRequests ==
    [orderId : {1}, userId : {"u1"}, items : {Given(items) : items \in OrderItems}]
    \cup {[orderId |-> 0, userId |-> "u1", items |-> Given(<<>>)],
          [orderId |-> 1, userId |-> NoUser, items |-> Given(<<>>)],
          [orderId |-> 1, userId |-> "u1", items |-> Absent]}

OrderFunction(i) ==
    \/ \E req \in OrderRequests : processOrder(i, req)
    \/ OrderNotificationReturns(i)
    \/ \E outcome \in {"row", "none"} : ProductSelectReturns(i, outcome)
    \/ \E outcome \in {"ok", "error"} : ProductUpdateReturns(i, outcome)

\* One invocation of process-order at a time, over any stock.
InitOrder == InitWith({}, {}, {Catalog}, [ProductIds -> 0..MaxStock])
NextOrder == OrderFunction("i1")
SpecOrder == InitOrder /\ [][NextOrder]_vars

\* Payloads whose items hold a null, alone or after a line.
MalformedItems ==
    {<<NullItem>>} \cup {<<OrderItem(p, MaxQty), NullItem>> : p \in ProductIds}

AnyRequests ==
    OrderRequests
    \cup [orderId : {1}, userId : {"u1"}, items : {Given(items) : items \in MalformedItems}]

PayloadFunction(i) ==
    \/ \E req \in AnyRequests : processOrder(i, req)
    \/ OrderNotificationReturns(i)
    \/ \E outcome \in {"row", "none"} : ProductSelectReturns(i, outcome)
    \/ \E outcome \in {"ok", "error"} : ProductUpdateReturns(i, outcome)

\* One invocation of process-order at a time, over any payload and any stock.
NextPayload == PayloadFunction("i1")
SpecPayload == InitOrder /\ [][NextPayload]_vars

\* Concurrent invocations of process-order for single lines of one product.
RacingRequests ==
    {r \in OrderRequests : r.items.present /\ Len(r.items.value) = 1
                            /\ r.items.value[1].productId = "P1"}

RacingFunction(i) ==
    \/ \E req \in RacingRequests : processOrder(i, req)
    \/ OrderNotificationReturns(i)
    \/ \E outcome \in {"row", "none"} : ProductSelectReturns(i, outcome)
    \/ \E outcome \in {"ok", "error"} : ProductUpdateReturns(i, outcome)

InitRace ==
    InitWith({}, {}, {Catalog}, {t \in [ProductIds -> 0..MaxStock] : t["P2"] = MaxStock})
NextRace == \E i \in Invocations : RacingFunction(i)
SpecRace == InitRace /\ [][NextRace]_vars

\* The store as two checkouts leave it, the later one at time 0: an order
\* and its payment for each session, the notifications not stored.
PlacedOrders ==
    OrdersInsert(OrdersInsert(<<>>, OrderRecord("u1", 0 - 1)), OrderRecord("u2", 0))

PlacedPayments ==
    PaymentsInsert(PaymentsInsert(<<>>, PaymentRecord(PlacedOrders[1], "u1", "credit_card")),
                   PaymentRecord(PlacedOrders[2], "u2", "paypal"))

\* The payment function against a store that holds two orders.
InitPayment ==
    /\ orders = PlacedOrders
    /\ payments = PlacedPayments
    /\ notifications = EmptyBag
    /\ payment_history = EmptyBag
    /\ messages = <<>>
    /\ price = Catalog
    /\ stock = FullStock
    /\ now = 0
    /\ InitBrowsers({}, {})
    /\ InitSettled
    /\ InitFunctions

\* Every complete request that names one of the stored orders and one of
\* the stored payments or a payment the store does not hold, and the
\* incomplete ones.
PaymentRequests ==
    [paymentId : 1..(Len(PlacedPayments) + 1), orderId : 1..Len(PlacedOrders),
     userId : {"u1"}, amount : {Dollars(100)}, paymentMethod : {"credit_card"}]
    \cup IncompleteRequests

NextPayment == PaymentFunctionOn(PaymentRequests)
SpecPayment == InitPayment /\ [][NextPayment]_vars

\* One invocation of process-order and one of process-payment, each for
\* one of the placed orders and its payment, running concurrently against
\* a store that carries every call out.
BothOrderRequest(o) ==
    [orderId |-> o, userId |-> PlacedOrders[o].user_id,
     items |-> Given(<<OrderItem("P1", MaxQty), OrderItem("P2", MaxQty)>>)]

BothPaymentRequest(o) ==
    [paymentId |-> o, orderId |-> o, userId |-> PlacedOrders[o].user_id,
     amount |-> Dollars(100), paymentMethod |-> PlacedPayments[o].payment_method]

NextBoth ==
    \/ /\ po["i1"].response = NoOrderResponse
       /\ \E o \in DOMAIN PlacedOrders : processOrder("i1", BothOrderRequest(o))
    \/ OrderNotificationAnswers("i1", "ok")
    \/ ProductSelectReturns("i1", "row")
    \/ ProductUpdateReturns("i1", "ok")
    \/ /\ pp.response = NoResponse
       /\ \E o \in DOMAIN PlacedOrders : processPayment(BothPaymentRequest(o))
    \/ PaymentsUpdateAnswers("ok")
    \/ OrdersUpdateAnswers("ok")
    \/ HistoryInsertAnswers("ok")
    \/ PaymentNotificationAnswers("ok")

SpecBoth == InitPayment /\ [][NextBoth]_vars

\* One browser that has just loaded the application, with or without a
\* session kept from before: checkAuth has called getUser.
InitAuth ==
    /\ InitStore({Catalog}, {FullStock})
    /\ InitBrowsers({}, {})
    /\ InitFunctions
    /\ session \in [Sessions -> Users \cup {NoUser}]
    /\ session["s2"] = NoUser
    /\ profile = [s \in Sessions |-> NoUser]
    /\ isAdmin = [s \in Sessions |-> FALSE]
    /\ ap = [s \in Sessions |->
               IF s = "s1" THEN SetToBag({Call("checkAuth", "getUser", NoUser, session[s])})
               ELSE EmptyBag]

AuthProvider(s) ==
    \/ \E c \in InFlight(s), outcome \in {"user", "none"} : GetUserReturns(s, c, outcome)
    \/ \E c \in InFlight(s), outcome \in {"row", "none"} : FetchProfileReturns(s, c, outcome)
    \/ \E c \in InFlight(s), outcome \in {"row", "none"} :
          CheckAdminStatusReturns(s, c, outcome)
    \/ \E u \in Users : signIn(s, u)
    \/ signOut(s)

NextAuth == AuthProvider("s1")
SpecAuth == InitAuth /\ [][NextAuth]_vars

\* One browser on its chat page, and the members of the rooms.
InitChat ==
    /\ InitWith({"s1"}, {}, {Catalog}, {FullStock})
    /\ user["s1"] = "u1"

NextChat ==
    \/ OpenChat("s1")
    \/ \E r \in Rooms : SelectRoom("s1", r)
    \/ \E r \in Rooms, outcome \in {"rows", "empty", "error"} :
          FetchMessagesReturns("s1", r, outcome)
    \/ \E r \in Rooms : MessagesInsert(r)
    \/ \E i \in 1..MaxMessages : MessagesDelete(i)
    \/ Deliver("s1")

SpecChat == InitChat /\ [][NextChat]_vars

(***************************************************************************)
(* Properties of the checkout workflow.                                    *)
(***************************************************************************)
PaymentsOf(tbl, orderId) == {i \in DOMAIN tbl : tbl[i].order_id = orderId}

\* Rows of a bag kept table that satisfy Test.
CountRows(tbl, Test(_)) ==
    LET rows == {r \in BagToSet(tbl) : Test(r)}
        Sum[S \in SUBSET rows] ==
            IF S = {} THEN 0
            ELSE LET r == CHOOSE x \in S : TRUE IN CopiesIn(r, tbl) + Sum[S \ {r}]
    IN Sum[rows]

OrderPlacedCount(tbl, orderId) ==
    CountRows(tbl, LAMBDA r : r.title = "Order Placed" /\ r.related_id = orderId)

\* handleSubmit of session s reaches navigate() in this step.
Completes(s) == hs[s].pc = "notifications" /\ hs'[s].pc = "idle"

\* C1: whenever handleSubmit completes successfully (cart entry removed,
\* order view opened), the store holds exactly one order of that id, exactly
\* one payment referencing it, which is processing, and exactly one
\* 'Order Placed' notification whose related_id is that id, and the cart
\* entry is absent.
C1_SuccessLeavesOneOfEach ==
    [][\A s \in Sessions :
         Completes(s) =>
            LET id == hs[s].order.id
            IN /\ Cardinality({i \in DOMAIN orders' : orders'[i].id = id}) = 1
               /\ Cardinality(PaymentsOf(payments', id)) = 1
               /\ \A i \in PaymentsOf(payments', id) : payments'[i].status = "processing"
               /\ OrderPlacedCount(notifications', id) = 1
               /\ localStorage'[s] = NoEntry
               /\ page'[s] = OrderPath(id)]_vars

\* An awaited insert of session s answers in this step without a new row.
InsertFails(s) ==
    /\ hs[s].pc # "idle"
    /\ hs'[s] # hs[s]
    /\ orders' = orders /\ payments' = payments /\ notifications' = notifications

\* C2: if any one of the three inserts of a checkout fails, the workflow
\* aborts: the cart entry is not removed, the order view is not opened and
\* an error is shown (so the cart is removed only after three successes).
C2_AnyFailureAborts ==
    [][\A s \in Sessions :
         InsertFails(s) =>
            /\ hs'[s].pc = "idle"
            /\ localStorage'[s] = localStorage[s]
            /\ page'[s] = page[s]
            /\ error'[s] # ""]_vars

\* C3: if the orders insert of a checkout fails (an error, or no row), that
\* checkout ends there with an error shown: it creates no payment and no
\* notification, and the cart entry is what it was when the checkout began.
C3_OrderFailureCreatesNothing ==
    [][\A s \in Sessions :
         (hs[s].pc = "orders" /\ hs'[s] # hs[s] /\ orders' = orders) =>
            /\ hs'[s].pc = "idle"
            /\ error'[s] \in {"orders: store error", "Failed to create order"}
            /\ payments' = payments
            /\ notifications' = notifications
            /\ localStorage'[s] = JSONstringify(hs[s].cartItems)
            /\ page'[s] = CheckoutPath]_vars

\* A failed orders insert has happened: its error is shown, the cart is kept.
C3_Witness ==
    /\ error["s1"] = "orders: store error"
    /\ localStorage["s1"].present
    /\ orders # <<>>
    /\ payments = <<>>

\* C4: rows of orders are never rolled back: when the payments insert of a
\* checkout fails its order row stays as inserted (pending), every other
\* order row stays as it is, and an orders insert that returns a row (a
\* retry included) adds a further row with an id no earlier row has.
C4_NoRollbackAndRetryAddsOrder ==
    [][/\ \A i \in DOMAIN orders : i \in DOMAIN orders' /\ orders'[i] = orders[i]
       /\ \A s \in Sessions :
            /\ (hs[s].pc = "payments" /\ hs'[s].pc = "idle") =>
                  /\ hs[s].order.id \in DOMAIN orders'
                  /\ orders'[hs[s].order.id] = hs[s].order
                  /\ orders'[hs[s].order.id].status = "pending"
            /\ (hs[s].pc = "orders" /\ hs'[s].pc = "payments") =>
                  /\ Len(orders') = Len(orders) + 1
                  /\ \A i \in DOMAIN orders : orders[i].id # hs'[s].order.id
                  /\ orders'[hs'[s].order.id] = hs'[s].order]_vars

\* A checkout failed at the payments insert and its retry made a second order.
C4_Witness ==
    /\ Len(orders) = 2
    /\ orders[1].user_id = "u1" /\ orders[2].user_id = "u1"
    /\ PaymentsOf(payments, 1) = {}
    /\ orders[1].status = "pending"
    /\ hs["s1"].pc = "payments"

\* C5: the order inserted by checkout carries subtotal = sum of unit price
\* times quantity over the cart it read, tax_amount = 10% of it,
\* shipping_cost = 0 if subtotal > 100 else 10, total_amount = their sum.
C5_OrderAmountsFromCart ==
    \A s \in Sessions :
        hs[s].pc = "payments" =>
            /\ hs[s].order.subtotal = subtotal(hs[s].cartItems, price)
            /\ hs[s].order.tax_amount = tax(hs[s].cartItems, price)
            /\ hs[s].order.shipping_cost = shipping(hs[s].cartItems, price)
            /\ hs[s].order.total_amount = total(hs[s].cartItems, price)

\* C6: every row of orders has total_amount = subtotal + tax_amount +
\* shipping_cost, at creation and after every operation of the slice.
C6_OrderTotalIsSum ==
    \A i \in DOMAIN orders :
        orders[i].total_amount =
            orders[i].subtotal + orders[i].tax_amount + orders[i].shipping_cost

\* An order row that the payment function has updated.
C6_Witness == \E i \in DOMAIN orders : orders[i].status = "confirmed"

\* Every line of the cart has its product in the fetched product map.
Resolved(items, map) == \A i \in DOMAIN items : items[i].product_id \in DOMAIN map

\* Sum of price times quantity over the lines of the cart.
LineTotal(items, map) ==
    LET Upto[n \in 0..Len(items)] ==
            IF n = 0 THEN 0
            ELSE Upto[n - 1] + map[items[n].product_id] * items[n].quantity
    IN Upto[Len(items)]

\* C7: for a non-empty cart whose prices all resolve the cart page shows
\* subtotal = sum of price * quantity, tax = 10% of it, shipping = 0 above
\* 100 and 10 otherwise (10 at exactly 100), total = their sum; one line of
\* price 20.00 and quantity 3 gives 60.00 / 6.00 / 10.00 / 76.00, and a
\* subtotal of 150.00 gives shipping 0.00, tax 15.00, total 165.00.
C7_CartSummary ==
    LET items == cartItems["s1"]
        map == products["s1"]
        sum == LineTotal(items, map)
        ship == IF sum > Dollars(100) THEN 0 ELSE Dollars(10)
    IN (items # <<>> /\ Resolved(items, map)) =>
          /\ subtotal(items, map) = sum
          /\ 10 * tax(items, map) = sum
          /\ shipping(items, map) = ship
          /\ 10 * total(items, map) = 11 * sum + 10 * ship
          /\ (Len(items) = 1 /\ items[1].quantity = 3 /\ map[items[1].product_id] = Dollars(20)) =>
                /\ subtotal(items, map) = Dollars(60)
                /\ tax(items, map) = Dollars(6)
                /\ shipping(items, map) = Dollars(10)
                /\ total(items, map) = Dollars(76)
          /\ sum = Dollars(150) =>
                /\ shipping(items, map) = 0
                /\ tax(items, map) = Dollars(15)
                /\ total(items, map) = Dollars(165)
          /\ sum = Dollars(100) => shipping(items, map) = Dollars(10)

\* A cart brought to a subtotal of exactly 100.00 with its prices fetched.
C7_Witness ==
    /\ cartItems["s1"] # <<>>
    /\ Resolved(cartItems["s1"], products["s1"])
    /\ LineTotal(cartItems["s1"], products["s1"]) = Dollars(100)
    /\ localStorage["s1"] = JSONstringify(cartItems["s1"])
    /\ Len(cartItems["s1"]) = 2

\* C8: the three inserts of a checkout are issued one after the other: the
\* payments insert is awaited only with the row the orders insert returned,
\* the notifications insert only after the payments insert stored its row,
\* and a row enters payments or notifications only from that position.
C8_InsertsInSequence ==
    [][\A s \in Sessions :
         /\ hs[s].pc = "payments" =>
               /\ hs[s].order.id \in DOMAIN orders
               /\ orders[hs[s].order.id] = hs[s].order
         /\ hs[s].pc = "notifications" =>
               /\ hs[s].order.id \in DOMAIN orders
               /\ \E i \in PaymentsOf(payments, hs[s].order.id) :
                     payments[i].user_id = user[s]
         /\ (hs'[s] # hs[s] /\ orders' # orders) => hs[s].pc = "orders"
         /\ (hs'[s] # hs[s] /\ payments' # payments) => hs[s].pc = "payments"
         /\ (hs'[s] # hs[s] /\ notifications' # notifications) =>
               hs[s].pc = "notifications"]_vars

\* A checkout that has stored its order and its payment and awaits the
\* notifications insert.
C8_Witness ==
    /\ hs["s1"].pc = "notifications"
    /\ hs["s1"].order.id \in DOMAIN orders
    /\ PaymentsOf(payments, hs["s1"].order.id) # {}
    /\ notifications = EmptyBag

\* C9: checkout issues no insert unless the user is signed in and the cart
\* it read has at least one line.
C9_NoInsertForEmptyCart ==
    \A s \in Sessions :
        hs[s].pc # "idle" => user[s] # NoUser /\ hs[s].cartItems # <<>>

\* C10 as claimed: every order has exactly one payment referencing it.
C10_ExactlyOnePaymentPerOrder ==
    \A i \in DOMAIN orders : Cardinality(PaymentsOf(payments, orders[i].id)) = 1

\* C10 as amended: every order has at most one payment referencing it, and
\* exactly one from the moment its checkout's payments insert succeeded
\* (the checkout awaits the notifications insert, or shows the order view).
C10_AtMostOnePaymentPerOrder ==
    /\ \A i \in DOMAIN orders : Cardinality(PaymentsOf(payments, orders[i].id)) <= 1
    /\ \A s \in Sessions :
         /\ hs[s].pc = "notifications" =>
               Cardinality(PaymentsOf(payments, hs[s].order.id)) = 1
         /\ page[s].path = "orders" =>
               Cardinality(PaymentsOf(payments, page[s].id)) = 1

\* Two orders, one with its payment and one whose payments insert failed.
C10_Witness ==
    /\ Len(orders) = 2
    /\ \E i \in DOMAIN orders : Cardinality(PaymentsOf(payments, i)) = 1
    /\ \E i \in DOMAIN orders : PaymentsOf(payments, i) = {}
    /\ \A s \in Sessions : hs[s].pc = "idle"

(***************************************************************************)
(* Properties of order numbers, of the status of orders and payments, and  *)
(* of the process-payment function.                                        *)
(***************************************************************************)
OrderNumbersDiffer(tbl) ==
    \A i, j \in DOMAIN tbl : i # j => tbl[i].order_number # tbl[j].order_number

\* The orders insert in flight carries the order number of a stored order.
Collides(s) ==
    /\ hs[s].pc = "orders"
    /\ \E i \in DOMAIN orders : orders[i].order_number = hs[s].order_number

\* C11: no two orders share an order number; when the orders insert of a
\* checkout carries the number of a stored order the insert fails and the
\* checkout ends with an error, with no row written, the cart entry and
\* the page kept, and no further insert issued and no new number derived.
C11_OrderNumberCollisionFails ==
    [][/\ OrderNumbersDiffer(orders)
       /\ OrderNumbersDiffer(orders')
       /\ \A s \in Sessions :
            (Collides(s) /\ hs'[s] # hs[s]) =>
                /\ hs'[s] = Idle
                /\ error'[s] # ""
                /\ ~loading'[s]
                /\ UNCHANGED storeVars
                /\ localStorage[s].present
                /\ localStorage'[s] = localStorage[s]
                /\ page'[s] = page[s]
                /\ now' = now]_vars

\* The second of two checkouts that read the same time awaits its orders
\* insert while the order of the first is stored.
C11_Witness ==
    /\ Collides("s2")
    /\ Len(orders) = 1
    /\ orders[1].user_id = "u1"
    /\ hs["s1"].pc = "payments"

\* C12: an order is created with status pending; the only change of an
\* order's status is pending -> confirmed, made by the orders update of
\* process-payment on the order it names; a confirmed order keeps its status.
C12_OrderPendingToConfirmed ==
    [][/\ Len(orders') >= Len(orders)
       /\ \A i \in DOMAIN orders : orders[i].status \in {"pending", "confirmed"}
       /\ \A i \in DOMAIN orders' :
            IF i \in DOMAIN orders
            THEN orders'[i].status # orders[i].status =>
                    /\ orders[i].status = "pending"
                    /\ orders'[i].status = "confirmed"
                    /\ pp.pc = "orders"
                    /\ pp.orderId = i
                    /\ hs' = hs
            ELSE orders'[i].status = "pending" /\ pp' = pp]_vars

\* The orders update of a second confirmation is in flight for an order
\* that the first one confirmed.
C12_Witness ==
    /\ pp.pc = "orders"
    /\ pp.orderId \in DOMAIN orders
    /\ orders[pp.orderId].status = "confirmed"

\* C13: a payment is created by checkout with status processing, without a
\* transaction id, with the payment method chosen in the form and the
\* total_amount of its order; afterwards only its status and transaction id
\* change, by the payments update of process-payment on the payment it
\* names: the status from processing to success, the transaction id to the
\* generated one; a payment in success stays in success.
C13_PaymentProcessingToSuccess ==
    [][/\ Len(payments') >= Len(payments)
       /\ \A i \in DOMAIN payments :
            /\ payments[i].status \in {"processing", "success"}
            /\ payments[i].order_id \in DOMAIN orders
            /\ payments[i].amount = orders[payments[i].order_id].total_amount
       /\ \A i \in DOMAIN payments' :
            IF i \in DOMAIN payments
            THEN /\ [payments'[i] EXCEPT !.status = "", !.transaction_id = 0]
                      = [payments[i] EXCEPT !.status = "", !.transaction_id = 0]
                 /\ payments'[i] # payments[i] =>
                       /\ pp.pc = "payments"
                       /\ pp.paymentId = i
                       /\ payments'[i].status = "success"
                       /\ payments'[i].transaction_id = pp.transactionId
                       /\ pp.transactionId # NoTransaction
            ELSE \E s \in Sessions :
                   /\ hs[s].pc = "payments"
                   /\ payments'[i].status = "processing"
                   /\ payments'[i].transaction_id = NoTransaction
                   /\ payments'[i].payment_method = formData[s].paymentMethod
                   /\ payments'[i].user_id = user[s]
                   /\ payments'[i].order_id = hs[s].order.id
                   /\ payments'[i].amount = orders[hs[s].order.id].total_amount]_vars

\* A payment made with the method chosen in place of the default is in
\* success with its transaction id, and a further confirmation of it is
\* about to update it.
C13_Witness ==
    /\ pp.pc = "payments"
    /\ pp.paymentId \in DOMAIN payments
    /\ payments[pp.paymentId].status = "success"
    /\ payments[pp.paymentId].transaction_id # NoTransaction
    /\ payments[pp.paymentId].payment_method = "paypal"

\* C14: a request to process-payment in which one of paymentId, orderId,
\* userId, amount, paymentMethod is absent, empty or zero is answered with
\* status 400 and starts no store call, so that the four tables stay as
\* they are.
C14_FiveFieldsValidated ==
    [][\A req \in IncompleteRequests :
         processPayment(req) =>
            /\ pp'.pc = "idle"
            /\ pp'.response.status = 400
            /\ UNCHANGED storeVars]_vars

\* C15: for a request with all its fields, naming a stored payment and a
\* stored order, process-payment makes its four store calls in the order
\* payments, orders, payment_history, notifications; the payments update
\* is one the store carries out, since the transaction id is fresh, and it
\* leaves the payment in success with that id; the orders update leaves the
\* order confirmed; the response carries success, the paymentId and the
\* transaction id.
C15_CompleteRequestConfirms ==
    [][/\ (pp.pc = "payments" /\ pp.paymentId \in DOMAIN payments) =>
             ENABLED PaymentsUpdateAnswers("ok")
       /\ (PaymentsUpdateAnswers("ok") /\ pp.paymentId \in DOMAIN payments) =>
             /\ payments'[pp.paymentId].status = "success"
             /\ payments'[pp.paymentId].transaction_id = pp.transactionId
       /\ (OrdersUpdateAnswers("ok") /\ pp.orderId \in DOMAIN orders) =>
             orders'[pp.orderId].status = "confirmed"
       /\ pp' # pp =>
            /\ pp.pc = "idle" => pp'.pc \in {"idle", "payments"}
            /\ pp.pc = "payments" => pp'.pc = "orders"
            /\ pp.pc = "orders" => pp'.pc = "payment_history"
            /\ pp.pc = "payment_history" => pp'.pc = "notifications"
            /\ pp.pc = "notifications" =>
                  /\ pp'.pc = "idle"
                  /\ pp'.response = [status |-> 200, success |-> TRUE,
                                     paymentId |-> pp.paymentId,
                                     transactionId |-> pp.transactionId]]_vars

\* C16: no state shows a payment in success while the order it belongs to
\* is still pending.
C16_UpdatesSeenTogether ==
    \A i \in DOMAIN payments :
        payments[i].status = "success" => orders[payments[i].order_id].status # "pending"

C18_TransactionIdsDiffer ==
    [][(pp.pc = "idle" /\ pp'.pc = "payments") =>
         /\ \A i \in DOMAIN payments : payments[i].transaction_id # pp'.transactionId
         /\ pp.response.status = 200 => pp.response.transactionId # pp'.transactionId]_vars

(***************************************************************************)
(* Properties of the process-order function.                               *)
(***************************************************************************)
\* The item that invocation i is handling.
ItemOf(i) == Head(po[i].items.value)

\* C19: one invocation of process-order on its own handles a line item
\* so: with stock >= quantity the stock of the product becomes stock -
\* quantity (5 and 5 give 0) once the store has carried out the select and
\* the update; with less stock (2 and 5) no update is made and the stock
\* stays; nothing else changes a stock, and whatever the store answers the
\* response is the success response.
C19_StockDecrementedWhenEnough ==
    [][LET i == "i1"
           p == ItemOf(i).productId
           n == ItemOf(i).quantity
       IN /\ stock' # stock => ProductUpdateReturns(i, "ok")
          /\ ProductUpdateReturns(i, "ok") =>
                /\ stock[p] >= n
                /\ stock' = [stock EXCEPT ![p] = stock[p] - n]
                /\ (stock[p] = 5 /\ n = 5) => stock'[p] = 0
          /\ ProductSelectReturns(i, "row") =>
                IF stock[p] >= n
                THEN po'[i].pc = "update" /\ po'[i].product.stock = stock[p]
                ELSE po'[i].pc # "update"
          /\ (ProductSelectReturns(i, "row") /\ stock[p] = 2 /\ n = 5) =>
                /\ stock'[p] = 2
                /\ po'[i].pc \in {"select", "idle"}
          /\ ProductSelectReturns(i, "none") => po'[i].pc # "update"
          /\ (po[i].pc \in {"select", "update"} /\ po'[i].pc = "select") =>
                po'[i].items.value = Tail(po[i].items.value)
          /\ (po[i].pc \in {"select", "update"} /\ po'[i].pc = "idle") =>
                /\ Len(po[i].items.value) = 1
                /\ po'[i].response = OrderSuccess(po[i].orderId)]_vars

\* The first line, of quantity 5 against a stock of 2, was passed over and
\* the update of the second line, of quantity 5 against a stock of 5, is
\* in flight.
C19_Witness ==
    /\ po["i1"].pc = "update"
    /\ po["i1"].items.value = <<OrderItem("P2", 5)>>
    /\ po["i1"].product.stock = 5
    /\ stock = [p \in ProductIds |-> IF p = "P1" THEN 2 ELSE 5]

\* C20: the stock check of an invocation looks only at the value it read
\* and its update writes that value less the quantity, whatever the stock
\* has become in between; so two invocations that read the same stock of a
\* product both pass the check and both write.
C20_UnguardedReadThenWrite ==
    [][\A i \in Invocations :
         /\ ProductSelectReturns(i, "row") =>
               (stock[ItemOf(i).productId] >= ItemOf(i).quantity => po'[i].pc = "update")
         /\ po[i].pc = "update" => ENABLED ProductUpdateReturns(i, "ok")
         /\ ProductUpdateReturns(i, "ok") =>
               /\ po[i].product.stock >= ItemOf(i).quantity
               /\ stock'[ItemOf(i).productId] = po[i].product.stock - ItemOf(i).quantity]_vars

\* Both invocations have passed the check against the same reading of the
\* stock of one product, for quantities that together exceed it, and one
\* of them has written already.
C20_Witness ==
    /\ po["i1"].pc = "update"
    /\ po["i2"].pc = "idle"
    /\ po["i2"].response.success
    /\ ItemOf("i1").productId = "P1"
    /\ po["i1"].product.stock = MaxStock
    /\ ItemOf("i1").quantity = MaxStock
    /\ stock["P1"] = 0

C23_FailedUpdateAborts ==
    [][(/\ pp.pc \in {"orders", "payment_history", "notifications"}
        /\ pp.paymentId \in DOMAIN payments
        /\ payments[pp.paymentId].transaction_id # pp.transactionId)
       => /\ orders' = orders
          /\ payment_history' = payment_history
          /\ notifications' = notifications
          /\ pp'.pc = "idle"
          /\ ~pp'.response.success]_vars

(***************************************************************************)
(* Properties of the cart page.                                            *)
(***************************************************************************)
\* C24: on the cart page, whatever quantity and remove buttons are
\* pressed, the cart holds at most one entry per product id, every
\* quantity is at least 1 (a quantity brought to 0 removes the entry) and
\* the list read back from the 'cart' entry of localStorage is the list
\* in memory.
C24_CartWellFormed ==
    LET items == cartItems["s1"]
    IN /\ \A i, j \in DOMAIN items : items[i].product_id = items[j].product_id => i = j
       /\ \A i \in DOMAIN items : items[i].quantity >= 1
       /\ (IF localStorage["s1"].present THEN localStorage["s1"].value ELSE <<>>) = items

\* The details of two products were fetched, one entry has been removed
\* since and the other one stands at the largest quantity; the stored
\* list is the one in memory.
C24_Witness ==
    /\ Cardinality(DOMAIN products["s1"]) = 2
    /\ cartItems["s1"] = <<CartItem("P2", MaxQty)>>
    /\ localStorage["s1"] = [present |-> TRUE, value |-> <<CartItem("P2", MaxQty)>>]

\* C25: whatever invocations of process-order run, and however their
\* steps interleave, no stock is negative: an update writes the stock the
\* invocation read less a quantity that this stock covers.
C25_StockNeverNegative == \A p \in ProductIds : stock[p] >= 0

\* Two invocations have read the same stock of P1, each for a quantity it
\* covers and together for more, and both updates are in flight.
C25_Witness ==
    /\ \A i \in Invocations :
          /\ po[i].pc = "update"
          /\ ItemOf(i) = OrderItem("P1", MaxQty)
          /\ po[i].product.stock = MaxStock
    /\ stock["P1"] = MaxStock
    /\ 2 * MaxQty > MaxStock

(***************************************************************************)
(* Properties of the two functions together.                               *)
(***************************************************************************)
\* C26: every order with status confirmed has a payment that references
\* it and has status success, whatever requests process-payment is sent.
C26_ConfirmedOrderIsPaid ==
    \A o \in DOMAIN orders :
        orders[o].status = "confirmed" =>
            \E i \in DOMAIN payments :
                payments[i].order_id = o /\ payments[i].status = "success"

\* Both invocations have answered, and they were made for order o.
BothDone(o) == po["i1"].response = OrderSuccess(o) /\ pp.response.status = 200
               /\ pp.response.paymentId = o

\* C27: a step of process-order leaves the orders, payments and
\* payment_history tables as they are and a step of process-payment
\* leaves every stock as it is; and when one invocation of each has run
\* for an order, in whatever order their steps were taken, the store
\* holds that order confirmed, its payment successful under the
\* transaction id of the response, the other order and payment untouched,
\* and both stocks less the quantity ordered.
C27_FunctionsDoNotInterfere ==
    /\ [][/\ po' # po => UNCHANGED <<orders, payments, payment_history>>
          /\ pp' # pp => stock' = stock]_vars
    /\ [](\A o \in DOMAIN PlacedOrders : BothDone(o) =>
            /\ orders = [PlacedOrders EXCEPT ![o].status = "confirmed"]
            /\ payments = [PlacedPayments EXCEPT
                              ![o].status = "success",
                              ![o].transaction_id = pp.response.transactionId]
            /\ stock = [p \in ProductIds |-> MaxStock - MaxQty])

\* Steps of the two invocations have alternated: the payment is updated
\* and the order not yet, while the first line is decremented and the
\* second not yet.
C27_Witness ==
    /\ pp.pc = "orders"
    /\ pp.orderId = 1
    /\ payments[1].status = "success"
    /\ po["i1"].pc = "select"
    /\ po["i1"].orderId = 1
    /\ stock = [p \in ProductIds |-> IF p = "P1" THEN MaxStock - MaxQty ELSE MaxStock]

(***************************************************************************)
(* Properties of the application shell and of the chat page.               *)
(***************************************************************************)
\* C28: in AuthProvider, once no asynchronous call is in flight, a state
\* without user has no profile and is not admin, however checkAuth, the
\* listener of onAuthStateChange and signOut have interleaved.
C28_SignedOutHasNoProfile ==
    \A s \in Sessions :
        (ap[s] = EmptyBag /\ user[s] = NoUser) => (profile[s] = NoUser /\ ~isAdmin[s])

\* C29: the cart count of the navbar is the number of entries of the list
\* stored under 'cart', after every operation of the cart page.
C29_CartCountIsStoredLength ==
    cartCount["s1"] = (IF localStorage["s1"].present THEN Len(localStorage["s1"].value) ELSE 0)

\* C30: on the chat page, once the fetches have answered and the payloads
\* are delivered, every displayed message is of the selected room, is not
\* deleted in the store and is displayed once.
C30_DisplayedMessagesOfSelectedRoom ==
    LET c == chat["s1"]
    IN (c.fetches = {} /\ events["s1"] = <<>>) =>
          \A i \in DOMAIN c.messages :
              /\ c.messages[i].room_id = c.selectedRoom
              /\ ~messages[c.messages[i].id].deleted_at
              /\ \A j \in DOMAIN c.messages : c.messages[j].id = c.messages[i].id => i = j
====
